---- MODULE Spec2Model ----
(***************************************************************************)
(* Model of the descriptor handle of the ae-js native bridge               *)
(* (packages/bridge/src/native/AEDescriptor.h): the ownership of one       *)
(* heap-allocated AEDesc per wrapper object, the constructor, the          *)
(* destructor, the descriptorType accessor and the as() coercion.          *)
(*                                                                         *)
(* Strings are sequences of byte values, type tags are 32-bit integers.    *)
(* The native heap is a function from payload identities to the AEDesc     *)
(* stored there; identities are never reused, so a dangling pointer stays  *)
(* distinguishable from every later allocation.                            *)
(***************************************************************************)
EXTENDS Integers, Sequences, FiniteSets, TLC

\* ----------------------------------------------------------------- bounds
MaxObjs == 2
MaxPayloads == 2

ObjIds == 1..MaxObjs
PayloadIds == 1..MaxPayloads

\* ------------------------------------------------------ program constants
Null == 0
noErr == 0
errAECoercionFail == 0 - 1700
memFullErr == 0 - 108

NativeStatuses == {noErr, errAECoercionFail, memFullErr}

\* ------------------------------------------------------- type-tag codec
\* "ab", "list", "TEXT", "null", "reco", "aevt", "zzzz" as byte sequences
s_ab == <<97, 98>>
s_list == <<108, 105, 115, 116>>
s_TEXT == <<84, 69, 88, 84>>
s_null == <<110, 117, 108, 108>>
s_reco == <<114, 101, 99, 111>>
s_aevt == <<97, 101, 118, 116>>
s_zzzz == <<122, 122, 122, 122>>

StringToFourCharCode(s) ==
    IF Len(s) # 4 THEN 0
    ELSE ((s[1] * 256 + s[2]) * 256 + s[3]) * 256 + s[4]

FourCharCodeToString(t) ==
    << (t \div 16777216) % 256, (t \div 65536) % 256,
       (t \div 256) % 256, t % 256 >>

typeNull == StringToFourCharCode(s_null)
typeAEList == StringToFourCharCode(s_list)
typeAERecord == StringToFourCharCode(s_reco)
typeAppleEvent == StringToFourCharCode(s_aevt)
typeText == StringToFourCharCode(s_TEXT)
typeUnregistered == StringToFourCharCode(s_zzzz)

\* the tags payloads are produced with
Tags == {typeNull, typeAEList, typeText, typeUnregistered}

\* ------------------------------------------------------------- variants
Classes == {"AENullDescriptor", "AEDataDescriptor", "AEListDescriptor",
            "AERecordDescriptor", "AEEventDescriptor", "AEUnknownDescriptor"}

Classify(t) ==
    IF t = typeNull THEN "AENullDescriptor"
    ELSE IF t = typeAEList THEN "AEListDescriptor"
    ELSE IF t = typeAERecord THEN "AERecordDescriptor"
    ELSE IF t = typeAppleEvent THEN "AEEventDescriptor"
    ELSE IF t = typeText THEN "AEDataDescriptor"
    ELSE "AEUnknownDescriptor"

\* ---------------------------------------------------- results of a call
Ok(v) == [kind |-> "ok", code |-> 0, message |-> "", value |-> v]
TypeErrorNew(m) == [kind |-> "TypeError", code |-> 0, message |-> m, value |-> <<>>]
ErrorNew(m) == [kind |-> "Error", code |-> 0, message |-> m, value |-> <<>>]
RuntimeError(m) == [kind |-> "runtime_error", code |-> 0, message |-> m, value |-> <<>>]
OSErrorThrow(c, m) == [kind |-> "OSError", code |-> c, message |-> m, value |-> <<>>]

\* ------------------------------------------------ arguments of a JS call
StringArg(s) == [isString |-> TRUE, utf8 |-> s]
NumberArg == [isString |-> FALSE, utf8 |-> <<>>]

TypeNames == {s_ab, s_list, s_TEXT, s_zzzz}
AsInfos == {<<>>, <<NumberArg>>} \cup {<<StringArg(s)>> : s \in TypeNames}

VARIABLES objs, heap, last
vars == <<objs, heap, last>>

NoObj == [st |-> "absent", cls |-> "AEUnknownDescriptor", desc |-> Null, failed |-> FALSE]
NoDesc == [shell |-> "unalloc", descriptorType |-> 0, disposed |-> 0]

HasFreeObj(os) == \E i \in ObjIds : os[i].st = "absent"
FreshObj(os) == CHOOSE i \in ObjIds :
    os[i].st = "absent" /\ \A j \in ObjIds : os[j].st = "absent" => i <= j

HasFreePayload(h) == \E p \in PayloadIds : h[p].shell = "unalloc"
FreshPayload(h) == CHOOSE p \in PayloadIds :
    h[p].shell = "unalloc" /\ \A q \in PayloadIds : h[q].shell = "unalloc" => p <= q

NewAEDesc(h, p, t) ==
    [h EXCEPT ![p] = [shell |-> "allocated", descriptorType |-> t, disposed |-> 0]]

Init ==
    /\ objs = [i \in ObjIds |-> NoObj]
    /\ heap = [p \in PayloadIds |-> NoDesc]
    /\ last = [op |-> "init", self |-> 0, info |-> <<>>, result |-> Ok(<<>>),
               native |-> FALSE, status |-> noErr, ret |-> 0, disposals |-> {}]

\* ------------------------------------------------------------ construction
\* Constructor, external branch: the wrapper adopts the raw pointer as is.
ConstructExternal(cls, rawDesc) ==
    [st |-> "live", cls |-> cls, desc |-> rawDesc, failed |-> FALSE]

\* WrapAEDesc of AEDescriptorWrapper<cls>: constructor.New({External(rawDesc)})
WrapAEDesc(os, cls, rawDesc) ==
    [os EXCEPT ![FreshObj(os)] = ConstructExternal(cls, rawDesc)]

\* What InitFromJS of a variant may leave behind: it sets desc or not, and it
\* leaves a JavaScript exception pending or not.
InitOutcomes == [sets : BOOLEAN, throws : BOOLEAN]

\* Variant: an initializer that sets nothing and throws nothing goes unreported.
InitFailureCheckSilent(desc, excPending) ==
    IF excPending THEN ErrorNew("InitFromJS") ELSE Ok(<<>>)

\* Constructor, tail after InitFromJS: the exception pending when it returns.
InitFailureCheck(desc, excPending) ==
    IF desc = Null /\ ~excPending
    THEN ErrorNew("Descriptor initialization failed")
    ELSE IF excPending THEN ErrorNew("InitFromJS") ELSE Ok(<<>>)

\* The handle factory: a producer hands over a fresh payload of tag t, the
\* factory picks the variant from the tag and wraps the payload.
WrapFromProducer(t) ==
    /\ HasFreeObj(objs) /\ HasFreePayload(heap)
    /\ LET p == FreshPayload(heap)
           o == FreshObj(objs)
       IN /\ heap' = NewAEDesc(heap, p, t)
          /\ objs' = WrapAEDesc(objs, Classify(t), p)
          /\ last' = [op |-> "wrap", self |-> o, info |-> <<>>, result |-> Ok(<<>>),
                      native |-> FALSE, status |-> noErr, ret |-> o, disposals |-> {}]

\* new Cls(...) from JavaScript: the InitFromJS branch of the constructor.
ConstructFromJS(cls, t, out) ==
    /\ HasFreeObj(objs)
    /\ out.sets => (HasFreePayload(heap) /\ Classify(t) = cls)
    /\ ~out.sets => t = typeNull  \* t is not read when no payload is built
    /\ LET o == FreshObj(objs)
           desc == IF out.sets THEN FreshPayload(heap) ELSE Null
           res == InitFailureCheck(desc, out.throws)
       IN /\ heap' = IF out.sets THEN NewAEDesc(heap, desc, t) ELSE heap
          /\ objs' = [objs EXCEPT ![o] = [st |-> "live", cls |-> cls, desc |-> desc,
                                           failed |-> res.kind # "ok"]]
          /\ last' = [op |-> "new", self |-> o, info |-> <<out>>, result |-> res,
                      native |-> FALSE, status |-> noErr, ret |-> o, disposals |-> {}]

\* ------------------------------------------------------------- destruction
\* Variant: the destructor releases nothing.
DestructorDisposesNothing(o) == {}

\* The payloads the destructor hands to AEDisposeDesc and delete.
DestructorDisposes(o) == IF o.desc # Null THEN {o.desc} ELSE {}

Destructor(o, h) ==
    [p \in PayloadIds |->
        IF p \in DestructorDisposes(o)
        THEN [shell |-> "deleted", descriptorType |-> typeNull,
              disposed |-> h[p].disposed + 1]
        ELSE h[p]]

\* The object is finalized once; the destructor leaves the member desc as is.
Destroy(d) ==
    /\ objs[d].st = "live"
    /\ heap' = Destructor(objs[d], heap)
    /\ objs' = [objs EXCEPT ![d].st = "destroyed"]
    /\ last' = [op |-> "destroy", self |-> d, info |-> <<>>, result |-> Ok(<<>>),
                native |-> FALSE, status |-> noErr, ret |-> 0,
                disposals |-> DestructorDisposes(objs[d])]

\* ------------------------------------------------------------- type access
\* Variant: no check of desc, a missing payload reads as the zero tag.
GetRawDescriptorTypeUnchecked(o, h) ==
    [kind |-> "ok", code |-> IF o.desc = Null THEN 0 ELSE h[o.desc].descriptorType,
     message |-> "", value |-> <<>>]

GetRawDescriptorType(o, h) ==
    IF o.desc = Null THEN RuntimeError("Uninitialized AEDesc")
    ELSE [kind |-> "ok", code |-> h[o.desc].descriptorType, message |-> "", value |-> <<>>]

GetDescriptorTypeOrThrow(d) ==
    /\ objs[d].st = "live"
    /\ LET raw == GetRawDescriptorType(objs[d], heap)
       IN last' = [op |-> "descriptorType", self |-> d, info |-> <<>>,
                   result |-> IF raw.kind = "ok" THEN Ok(FourCharCodeToString(raw.code))
                              ELSE raw,
                   native |-> FALSE, status |-> noErr, ret |-> 0, disposals |-> {}]
    /\ UNCHANGED <<objs, heap>>

\* ---------------------------------------------------------------- coercion
\* Variant: the type name is decoded before desc is checked.
AsPrecheckNameFirst(o, info) ==
    IF Len(info) # 1 \/ ~info[1].isString
    THEN TypeErrorNew("as(descriptorType) expects a string")
    ELSE IF StringToFourCharCode(info[1].utf8) = 0 THEN ErrorNew("Invalid descriptor type")
    ELSE IF o.desc = Null THEN ErrorNew("Uninitialized descriptor")
    ELSE [kind |-> "ok", code |-> StringToFourCharCode(info[1].utf8),
          message |-> "", value |-> <<>>]

\* Variant: the decoded target type is not compared with zero.
AsPrecheckNoZeroCheck(o, info) ==
    IF Len(info) # 1 \/ ~info[1].isString
    THEN TypeErrorNew("as(descriptorType) expects a string")
    ELSE IF o.desc = Null THEN ErrorNew("Uninitialized descriptor")
    ELSE [kind |-> "ok", code |-> StringToFourCharCode(info[1].utf8),
          message |-> "", value |-> <<>>]

\* Variant: desc is not checked before the native call.
AsPrecheckNoNullCheck(o, info) ==
    IF Len(info) # 1 \/ ~info[1].isString
    THEN TypeErrorNew("as(descriptorType) expects a string")
    ELSE IF StringToFourCharCode(info[1].utf8) = 0 THEN ErrorNew("Invalid descriptor type")
    ELSE [kind |-> "ok", code |-> StringToFourCharCode(info[1].utf8),
          message |-> "", value |-> <<>>]

\* AsOrThrow up to the allocation of the result: the failure it returns
\* early with, or Ok carrying the decoded target type.
AsPrecheck(o, info) ==
    IF Len(info) # 1 \/ ~info[1].isString
    THEN TypeErrorNew("as(descriptorType) expects a string")
    ELSE IF o.desc = Null THEN ErrorNew("Uninitialized descriptor")
    ELSE IF StringToFourCharCode(info[1].utf8) = 0 THEN ErrorNew("Invalid descriptor type")
    ELSE [kind |-> "ok", code |-> StringToFourCharCode(info[1].utf8),
          message |-> "", value |-> <<>>]

\* AECoerceDesc(desc, targetType, coerced): on success the result shell holds
\* a payload of the target type, on failure it holds nothing.
AECoerceDesc(h, coerced, targetType, err) ==
    IF err = noErr THEN [h EXCEPT ![coerced].descriptorType = targetType]
    ELSE h

\* Variant: the failure branch deletes the source pointer, not the result.
AsCoerceFailedDeletesSource(h, desc, coerced) == [h EXCEPT ![desc].shell = "deleted"]

\* Variant: the failure branch does not delete the result shell.
AsCoerceFailedLeaks(h, desc, coerced) == h

\* The failure branch after AECoerceDesc: delete coerced (OSError::Throw follows).
AsCoerceFailed(h, desc, coerced) == [h EXCEPT ![coerced].shell = "deleted"]

\* Variant: the source pointer is wrapped a second time.
AsWrappedSource(desc, coerced) == desc

\* The pointer handed to WrapAEDesc on success.
AsWrapped(desc, coerced) == coerced

AsOrThrow(d, info, err) ==
    /\ objs[d].st = "live"
    /\ LET chk == AsPrecheck(objs[d], info)
       IN IF chk.kind # "ok"
          THEN /\ err = noErr  \* the native routine is not reached: err is not read
               /\ UNCHANGED <<objs, heap>>
               /\ last' = [op |-> "as", self |-> d, info |-> info, result |-> chk,
                           native |-> FALSE, status |-> noErr, ret |-> 0, disposals |-> {}]
          ELSE /\ HasFreePayload(heap)
               /\ err = noErr => HasFreeObj(objs)
               /\ LET coerced == FreshPayload(heap)
                      h1 == AECoerceDesc(NewAEDesc(heap, coerced, typeNull),
                                         coerced, chk.code, err)
                  IN IF err # noErr
                     THEN /\ heap' = AsCoerceFailed(h1, objs[d].desc, coerced)
                          /\ objs' = objs
                          /\ last' = [op |-> "as", self |-> d, info |-> info,
                                      result |-> OSErrorThrow(err, "AECoerceDesc failed"),
                                      native |-> TRUE, status |-> err, ret |-> 0,
                                      disposals |-> {}]
                     ELSE /\ heap' = h1
                          /\ objs' = WrapAEDesc(objs, objs[d].cls,
                                                AsWrapped(objs[d].desc, coerced))
                          /\ last' = [op |-> "as", self |-> d, info |-> info,
                                      result |-> Ok(<<>>), native |-> TRUE,
                                      status |-> err, ret |-> FreshObj(objs),
                                      disposals |-> {}]

\* ------------------------------------------------------------ specification
Next ==
    \/ \E t \in Tags : WrapFromProducer(t)
    \/ \E cls \in Classes, t \in Tags, out \in InitOutcomes : ConstructFromJS(cls, t, out)
    \/ \E d \in ObjIds : Destroy(d)
    \/ \E d \in ObjIds : GetDescriptorTypeOrThrow(d)
    \/ \E d \in ObjIds, info \in AsInfos, err \in NativeStatuses : AsOrThrow(d, info, err)

Spec == Init /\ [][Next]_vars

TypeOK ==
    /\ \A i \in ObjIds : objs[i].st \in {"absent", "live", "destroyed"}
                         /\ objs[i].cls \in Classes
                         /\ objs[i].desc \in PayloadIds \cup {Null}
    /\ \A p \in PayloadIds : heap[p].shell \in {"unalloc", "allocated", "deleted"}

\* ------------------------------------------------------------------ claims
Live(d) == objs[d].st = "live"
Owned(d) == Live(d) /\ objs[d].desc # Null
IsStringCall == Len(last.info) = 1 /\ last.info[1].isString
IsUninitializedResource(r) ==
    \/ r = ErrorNew("Uninitialized descriptor")
    \/ r = RuntimeError("Uninitialized AEDesc")
IsInvalidTypeName(r) == r = ErrorNew("Invalid descriptor type")

\* C1: exclusive ownership. No two existing descriptors hold the same
\* payload, every existing descriptor either holds an allocated, undisposed
\* payload or holds none, and no payload is disposed more than once.
ExclusiveOwnership ==
    /\ \A i, j \in ObjIds :
          (i # j /\ Owned(i) /\ Live(j)) => objs[i].desc # objs[j].desc
    /\ \A i \in ObjIds :
          Owned(i) => /\ heap[objs[i].desc].shell = "allocated"
                      /\ heap[objs[i].desc].disposed = 0
    /\ \A p \in PayloadIds : heap[p].disposed <= 1

\* a descriptor has just been destroyed together with its payload while
\* another descriptor still owns a different payload
ExclusiveOwnershipWitness ==
    /\ last.op = "destroy" /\ last.disposals # {}
    /\ \E j \in ObjIds : Owned(j) /\ objs[j].desc \notin last.disposals

\* C2: coercion is non-destructive. A successful as() leaves the source
\* descriptor, its payload and its raw type tag as they were, and returns a
\* new descriptor owning a payload allocated by this call, distinct from the
\* source's.
CoercionNonDestructive ==
    [][ (last'.op = "as" /\ last'.result.kind = "ok") =>
          LET d == last'.self
              r == last'.ret
          IN /\ Owned(d)
             /\ objs'[d] = objs[d]
             /\ heap'[objs[d].desc] = heap[objs[d].desc]
             /\ GetRawDescriptorType(objs'[d], heap') = GetRawDescriptorType(objs[d], heap)
             /\ GetRawDescriptorType(objs'[d], heap').kind = "ok"
             /\ r \in ObjIds /\ r # d
             /\ objs[r].st = "absent" /\ objs'[r].st = "live"
             /\ objs'[r].desc # Null /\ objs'[r].desc # objs[d].desc
             /\ heap[objs'[r].desc].shell = "unalloc"
             /\ heap'[objs'[r].desc].shell = "allocated" ]_vars

CoercionNonDestructiveWitness ==
    /\ last.op = "as" /\ last.result.kind = "ok"
    /\ Owned(last.self) /\ Owned(last.ret)
    /\ heap[objs[last.ret].desc].descriptorType # heap[objs[last.self].desc].descriptorType

InvalidTypeNameLeavesUnchanged ==
    [][ (/\ last'.op = "as"
         /\ Len(last'.info) = 1 /\ last'.info[1].isString
         /\ StringToFourCharCode(last'.info[1].utf8) = 0
         /\ objs[last'.self].desc # Null) =>
          /\ IsInvalidTypeName(last'.result)
          /\ ~last'.native /\ last'.ret = 0
          /\ heap' = heap
          /\ objs' = objs ]_vars

InvalidTypeNameWitness ==
    /\ last.op = "as" /\ last.info = <<StringArg(s_ab)>>
    /\ Owned(last.self)
    /\ IsInvalidTypeName(last.result)

\* C5: when the native coercion returns a non-success status, as() fails with
\* the OS error carrying that status and the message naming the coercion
\* call; no descriptor is created, no shell allocated by the call stays
\* allocated, and the source keeps its payload unchanged.
NativeFailureSurfaced ==
    [][ (last'.op = "as" /\ last'.native /\ last'.status # noErr) =>
          /\ last'.result = OSErrorThrow(last'.status, "AECoerceDesc failed")
          /\ last'.ret = 0
          /\ objs' = objs
          /\ \A p \in PayloadIds :
                heap'[p].shell = "allocated" => heap[p].shell = "allocated"
          /\ Owned(last'.self)
          /\ heap'[objs[last'.self].desc] = heap[objs[last'.self].desc] ]_vars

NativeFailureWitness ==
    /\ last.op = "as" /\ last.native /\ last.status = errAECoercionFail
    /\ last.result.kind = "OSError" /\ last.result.code = errAECoercionFail
    /\ Owned(last.self)

\* C6 as stated: the disposal path of an owned descriptor disposes the
\* payload once and leaves the payload pointer cleared.
DisposalClearsPointer ==
    (last.op = "destroy" /\ last.disposals # {}) =>
        /\ \A p \in last.disposals : heap[p].disposed = 1
        /\ objs[last.self].desc = Null

\* C6 amended: the disposal path of an owned descriptor disposes and frees
\* the payload exactly once; the pointer is left as it was, and the count
\* stays at one because the path runs once per descriptor.
DisposalExactlyOnce ==
    /\ \A d \in ObjIds : (objs[d].st = "destroyed" /\ objs[d].desc # Null) =>
          /\ heap[objs[d].desc].disposed = 1
          /\ heap[objs[d].desc].shell = "deleted"
    /\ (last.op = "destroy" /\ objs[last.self].desc # Null) =>
          last.disposals = {objs[last.self].desc}

DisposalExactlyOnceWitness ==
    /\ last.op # "destroy"
    /\ \E d \in ObjIds : /\ objs[d].st = "destroyed" /\ objs[d].desc # Null
                         /\ heap[objs[d].desc].disposed = 1

\* C7: after construction a descriptor either holds an allocated payload or
\* the construction reported a failure and the descriptor holds none, in
\* which case its destruction disposes nothing; an initializer that sets no
\* payload and raises nothing is reported as a failure.
ConstructionNeverUninitialized ==
    /\ \A d \in ObjIds : Live(d) =>
          \/ objs[d].desc # Null /\ heap[objs[d].desc].shell = "allocated"
          \/ objs[d].desc = Null /\ objs[d].failed
    /\ (last.op = "new" /\ ~last.info[1].sets /\ ~last.info[1].throws) =>
          /\ last.result = ErrorNew("Descriptor initialization failed")
          /\ objs[last.self].failed
    /\ (last.op \in {"new", "wrap"} /\ last.result.kind = "ok") => Owned(last.self)
    /\ (last.op = "destroy" /\ objs[last.self].desc = Null) => last.disposals = {}

ConstructionFailedWitness ==
    /\ last.op = "destroy" /\ last.disposals = {}
    /\ objs[last.self].desc = Null /\ objs[last.self].failed

\* C8 as stated: the descriptorType accessor never fails.
TypeNameNeverFails ==
    last.op = "descriptorType" => last.result.kind = "ok"

\* C8 amended: on a descriptor with a payload the descriptorType accessor
\* succeeds with the four characters of the payload's tag, registered or
\* not; on a descriptor without payload it fails with the uninitialized
\* failure.
TypeNameOnOwned ==
    last.op = "descriptorType" =>
        IF objs[last.self].desc # Null
        THEN /\ last.result.kind = "ok"
             /\ Len(last.result.value) = 4
             /\ StringToFourCharCode(last.result.value)
                    = heap[objs[last.self].desc].descriptorType
        ELSE IsUninitializedResource(last.result)

TypeNameOnOwnedWitness ==
    /\ last.op = "descriptorType" /\ Owned(last.self)
    /\ heap[objs[last.self].desc].descriptorType = typeUnregistered
    /\ last.result = Ok(s_zzzz)

\* C9: every existing descriptor with a payload has the variant its own
\* type tag classifies to.
VariantMatchesTag ==
    \A d \in ObjIds : Owned(d) =>
        objs[d].cls = Classify(heap[objs[d].desc].descriptorType)

\* C10 as stated: as(string) checks the type name first, then the payload,
\* and invokes the native routine only when both checks pass.
CoerceChecksNameFirst ==
    (last.op = "as" /\ IsStringCall) =>
        LET code == StringToFourCharCode(last.info[1].utf8)
            desc == objs[last.self].desc
        IN /\ code = 0 => (IsInvalidTypeName(last.result) /\ ~last.native)
           /\ (code # 0 /\ desc = Null) =>
                 (IsUninitializedResource(last.result) /\ ~last.native)
           /\ (code # 0 /\ desc # Null) => last.native

\* C10 amended: as(string) checks the payload first, then the type name, and
\* invokes the native routine only when both checks pass.
CoerceChecksPayloadFirst ==
    (last.op = "as" /\ IsStringCall) =>
        LET code == StringToFourCharCode(last.info[1].utf8)
            desc == objs[last.self].desc
        IN /\ desc = Null => (IsUninitializedResource(last.result) /\ ~last.native)
           /\ (desc # Null /\ code = 0) =>
                 (IsInvalidTypeName(last.result) /\ ~last.native)
           /\ (desc # Null /\ code # 0) => last.native

CoerceChecksPayloadFirstWitness ==
    /\ last.op = "as" /\ last.info = <<StringArg(s_ab)>>
    /\ Live(last.self) /\ objs[last.self].desc = Null
    /\ last.result = ErrorNew("Uninitialized descriptor")

====
